---------------------------- MODULE Spec2Model ----------------------------
(***************************************************************************)
(* A model of onschema's runtime engine (src/src/index.ts): the validator  *)
(* isValid and the field stripper stripFields, with the schema builders.   *)
(*                                                                         *)
(* JavaScript values, schemas included (a schema is plain data: a string,  *)
(* an array whose head is a tag, or an object), are tagged records:        *)
(*   [t |-> "undefined"]  [t |-> "null"]  [t |-> "boolean", b |-> ...]     *)
(*   [t |-> "number", n |-> i, half |-> h]   the number i + (h ? 0.5 : 0)  *)
(*   [t |-> "bigint", big |-> i]   [t |-> "string", s |-> ...]             *)
(*   [t |-> "array", items |-> <<...>>]                                    *)
(*   [t |-> "object", fields |-> [key |-> value]]   own enumerable keys    *)
(*   [t |-> "function", ref |-> name]   a zero-argument schema thunk       *)
(* An exception leaving a call is [t |-> "throw", err |-> constructor].    *)
(***************************************************************************)
EXTENDS Integers, Sequences, FiniteSets, TLC

VARIABLES obj, schema, pc, valid, stripped, rebuilt, again

vars == <<obj, schema, pc, valid, stripped, rebuilt, again>>

---------------------------------------------------------------------------
(* Values *)

Undefined == [t |-> "undefined"]
Null == [t |-> "null"]
Bool(b) == [t |-> "boolean", b |-> b]
Num(n) == [t |-> "number", n |-> n, half |-> FALSE]
NumHalf(n) == [t |-> "number", n |-> n, half |-> TRUE]
Big(n) == [t |-> "bigint", big |-> n]
Str(s) == [t |-> "string", s |-> s]
Arr(items) == [t |-> "array", items |-> items]
Obj(fields) == [t |-> "object", fields |-> fields]
Fn(ref) == [t |-> "function", ref |-> ref]
Throw(err) == [t |-> "throw", err |-> err]

NoFields == [k \in {} |-> Undefined]

\* The typeof operator.
typeof(v) ==
    CASE v.t = "undefined" -> "undefined"
      [] v.t = "null" -> "object"
      [] v.t = "boolean" -> "boolean"
      [] v.t = "number" -> "number"
      [] v.t = "bigint" -> "bigint"
      [] v.t = "string" -> "string"
      [] v.t = "array" -> "object"
      [] v.t = "object" -> "object"
      [] v.t = "function" -> "function"

\* Array.isArray
isArray(v) == v.t = "array"

IsThrow(v) == v.t = "throw"

\* seq[i] with JavaScript's out-of-range read (1-based here).
At(seq, i) == IF i \in 1..Len(seq) THEN seq[i] ELSE Undefined

\* a === b for the operands the engine compares: primitives by type and
\* value, arrays/objects/functions by reference (a schema's parameter and a
\* candidate value are never the same reference).
strictEquals(a, b) ==
    IF a.t \in {"array", "object", "function"} THEN FALSE ELSE a = b

\* The order in which Object.entries lists keys: the model's objects insert
\* their keys in this order.
KeyOrder == <<"a", "b", "name", "subcategories">>

\* obj[key] for the string keys of KeyOrder: an own field of a plain object,
\* undefined on an array or a boxed primitive, a TypeError on null/undefined.
Get(o, key) ==
    IF o.t \in {"null", "undefined"} THEN Throw("TypeError")
    ELSE IF o.t = "object" /\ key \in DOMAIN o.fields THEN o.fields[key]
    ELSE Undefined

\* The keys of Object.entries(o), o a plain object.
OwnKeys(o) == DOMAIN o.fields

---------------------------------------------------------------------------
(* Schema builders *)

object(o) == o

\* A new object schema without the keys of the set `keys`.
omit(o, keys) == Obj([k \in (DOMAIN o.fields) \ keys |-> o.fields[k]])

optional(t) == Arr(<<Str("optional"), t>>)

literal(value) == Arr(<<Str("literal"), value>>)

array(t) == Arr(<<Str("array"), t>>)

\* anyOf(...types), `types` the sequence of the arguments.
anyOf(types) == Arr(<<Str("anyOf")>> \o types)

\* enumOf(...values), `values` the sequence of the arguments.
enumOf(values) == Arr(<<Str("enum")>> \o values)

nullable(t) == anyOf(<<t, Str("null")>>)

---------------------------------------------------------------------------
(* Numeric range checks.  TLC's integers have 32 bits, so a comparison     *)
(* with 2^e is made on the quotient by 2^(e-30) when e > 30, which is the  *)
(* same comparison for integers.                                           *)

\* x < 2^e, x an integer.
LtPow2(x, e) == IF e <= 30 THEN x < 2^e ELSE (x \div (2^(e - 30))) < 2^30

\* obj <= 2^e - 1 for the number obj (n, or n + 0.5).
LeMaxPow2(o, e) == LtPow2(o.n + (IF o.half THEN 1 ELSE 0), e)

\* isInt as it would be with the upper bound exclusive (obj < max).
isIntExclusiveMax(o, bits) ==
    /\ typeof(o) = "number"
    /\ IF bits = 0 THEN LtPow2(-o.n, 53) ELSE LtPow2(-o.n - 1, bits - 1)
    /\ LeMaxPow2([o EXCEPT !.n = o.n + 1], IF bits = 0 THEN 53 ELSE bits - 1)
    /\ ~o.half

\* bits = 0 stands for the omitted argument (bits == null):
\* min/max are -/+ Number.MAX_SAFE_INTEGER = 2^53 - 1, else -2^(bits-1) and
\* 2^(bits-1) - 1.
isInt(o, bits) ==
    /\ typeof(o) = "number"
    /\ IF bits = 0 THEN LtPow2(-o.n, 53) ELSE LtPow2(-o.n - 1, bits - 1)
    /\ LeMaxPow2(o, IF bits = 0 THEN 53 ELSE bits - 1)
    /\ ~o.half

\* max is Number.MAX_SAFE_INTEGER, else 2^bits - 1.
isUint(o, bits) ==
    /\ typeof(o) = "number"
    /\ o.n >= 0
    /\ LeMaxPow2(o, IF bits = 0 THEN 53 ELSE bits)
    /\ ~o.half

---------------------------------------------------------------------------
(* The validator *)

schemaIsOptional(s) == isArray(s) /\ At(s.items, 1) = Str("optional")

schemaRemoveOptional(s) == IF schemaIsOptional(s) THEN At(s.items, 2) ELSE s

RECURSIVE isValid(_, _)

\* The switch over a string schema.
isValidPrimitive(o, type) ==
    CASE type = "null" -> o = Null
      [] type = "number" -> typeof(o) = "number"
      [] type = "boolean" -> typeof(o) = "boolean"
      [] type = "bigint" -> typeof(o) = "bigint"
      [] type = "int" -> isInt(o, 0)
      [] type = "int8" -> isInt(o, 8)
      [] type = "int32" -> isInt(o, 32)
      [] type = "uint" -> isUint(o, 0)
      [] type = "uint8" -> isUint(o, 8)
      [] type = "uint32" -> isUint(o, 32)
      [] type = "string" -> typeof(o) = "string"
      [] OTHER -> FALSE

\* The switch over an array schema [type, ...params].
isValidTagged(o, s) ==
    LET type == At(s.items, 1)
        params == IF s.items = <<>> THEN <<>> ELSE Tail(s.items)
    IN  CASE type = Str("anyOf") ->
                \E i \in 1..Len(params) : isValid(o, params[i])
          [] type = Str("array") ->
                /\ isArray(o)
                /\ \A i \in 1..Len(o.items) : isValid(o.items[i], At(params, 1))
          [] type = Str("literal") -> strictEquals(o, At(params, 1))
          [] type = Str("enum") ->
                \E i \in 1..Len(params) : strictEquals(params[i], o)
          [] OTHER -> FALSE

\* isValidObject as it would be if undeclared keys were rejected.
isValidObjectStrict(o, s) ==
    IF typeof(o) = "object" /\ o # Null
    THEN /\ o.t = "object" => OwnKeys(o) \subseteq OwnKeys(s)
         /\ \A key \in OwnKeys(s) :
                \/ Get(o, key) = Undefined /\ schemaIsOptional(s.fields[key])
                \/ isValid(Get(o, key), schemaRemoveOptional(s.fields[key]))
    ELSE FALSE

\* isValidObject as it would be without the skip of an absent optional key.
isValidObjectNoSkip(o, s) ==
    IF typeof(o) = "object" /\ o # Null
    THEN \A key \in OwnKeys(s) :
            isValid(Get(o, key), schemaRemoveOptional(s.fields[key]))
    ELSE FALSE

\* The branch of an object schema (s is a plain object: a null schema, on
\* which Object.entries raises, is no Schema and is not among the inputs).
isValidObject(o, s) ==
    IF typeof(o) = "object" /\ o # Null
    THEN \A key \in OwnKeys(s) :
            \/ Get(o, key) = Undefined /\ schemaIsOptional(s.fields[key])
            \/ isValid(Get(o, key), schemaRemoveOptional(s.fields[key]))
    ELSE FALSE

isValid(o, s) ==
    IF typeof(s) = "string" THEN isValidPrimitive(o, s.s)
    ELSE IF isArray(s) THEN isValidTagged(o, s)
    ELSE IF typeof(s) = "object" /\ s # Null THEN isValidObject(o, s)
    ELSE FALSE

---------------------------------------------------------------------------
(* The field stripper *)

\* The first key of the non-empty set S in Object.entries order.
FirstKey(S) ==
    KeyOrder[CHOOSE i \in 1..Len(KeyOrder) :
                /\ KeyOrder[i] \in S
                /\ \A j \in 1..(i - 1) : KeyOrder[j] \notin S]

RECURSIVE recursiveStrip(_, _)

\* obj.map(item => recursiveStrip(item, subSchema)): the first exception
\* leaves the loop.
stripArray(o, subSchema) ==
    LET res == [i \in 1..Len(o.items) |-> recursiveStrip(o.items[i], subSchema)]
        bad == {i \in 1..Len(o.items) : IsThrow(res[i])}
    IN  IF bad # {} THEN res[CHOOSE i \in bad : \A j \in bad : i <= j]
        ELSE Arr(res)

\* The loop over Object.entries(schema) that fills newObj.
stripObject(o, s) ==
    LET keys == OwnKeys(s)
        kept == {k \in keys : ~IsThrow(Get(o, k)) /\ Get(o, k) # Undefined}
        res == [k \in kept |->
                  recursiveStrip(Get(o, k),
                                 IF schemaIsOptional(s.fields[k])
                                 THEN At(s.fields[k].items, 2)
                                 ELSE s.fields[k])]
        bad == {k \in kept : IsThrow(res[k])}
    IN  IF keys # {} /\ IsThrow(Get(o, FirstKey(keys)))
        THEN Get(o, FirstKey(keys))
        ELSE IF bad # {} THEN res[FirstKey(bad)]
        ELSE Obj(res)

recursiveStrip(o, s) ==
    IF typeof(o) = "string" \/ typeof(o) = "bigint" THEN o
    ELSE IF isArray(s) THEN
        LET kind == At(s.items, 1)
            subSchema == At(s.items, 2)
        IN  IF kind = Str("anyOf") THEN recursiveStrip(o, subSchema)
            ELSE IF kind = Str("array") /\ isArray(o) THEN stripArray(o, subSchema)
            ELSE Throw("Error")
    ELSE IF typeof(s) = "object"
        THEN IF s = Null THEN Throw("TypeError") ELSE stripObject(o, s)
    ELSE o

\* stripFields as it would be without the isValid gate.
stripFieldsNoGate(o, s) == [ret |-> recursiveStrip(o, s), rebuilt |-> TRUE]

\* stripFields: ret is what the call returns (or the exception leaving it),
\* rebuilt tells whether recursiveStrip was entered.
stripFields(o, s) ==
    IF ~isValid(o, s) THEN [ret |-> Undefined, rebuilt |-> FALSE]
    ELSE [ret |-> recursiveStrip(o, s), rebuilt |-> TRUE]

---------------------------------------------------------------------------
(* Schema thunks (README, "Recursive Schemas"): () => Schema *)

\* const categorySchema = object({ name: 'string',
\*                                 subcategories: array(() => categorySchema) })
categorySchema ==
    object(Obj([name |-> Str("string"),
                subcategories |-> array(Fn("category"))]))

\* thunk(): the schema the zero-argument function produces.
Call(thunk) ==
    CASE thunk.ref = "category" -> categorySchema
      [] thunk.ref = "string" -> Str("string")

---------------------------------------------------------------------------
(* The inputs: candidate values and schemas *)

MaxNum == 1
MaxLen == 2

Keys == {"a", "b"}

Nums == {Num(n) : n \in 1..MaxNum}

Scalars == {Null, Bool(TRUE), Str("x"), Big(1)} \cup Nums

Record == Obj([a |-> Str("x"), b |-> Num(1)])

Elems == {Num(1), Str("x"), Record, Obj([b |-> Num(1)])}

Arrays == {Arr(items) : items \in UNION {[1..n -> Elems] : n \in 0..MaxLen}}

FieldValues == Scalars \cup {Undefined, Record, Arr(<<>>), Arr(<<Num(1)>>)}

Objects == {Obj(f) : f \in UNION {[K -> FieldValues] : K \in SUBSET Keys}}

leafCategory == Obj([name |-> Str("x"), subcategories |-> Arr(<<>>)])

Categories ==
    {leafCategory, Obj([name |-> Str("y"), subcategories |-> Arr(<<leafCategory>>)])}

Values == Scalars \cup {Undefined} \cup Arrays \cup Objects \cup Categories

PrimitiveNames ==
    {"null", "string", "boolean", "uint", "uint8", "uint32",
     "int", "int8", "int32", "number", "bigint"}

Primitives == {Str(p) : p \in PrimitiveNames}

InnerSchemas == {Str("string"), Str("number"), Str("null")}

objA == object(Obj([a |-> Str("string")]))
objB == object(Obj([b |-> Str("number")]))

Literals == {literal(v) : v \in Scalars}

Enums == {enumOf(<<x, y>>) : x, y \in {Str("x"), Num(1), Null}}

Alternatives == InnerSchemas \cup {objA, objB, array(Str("number")), object(Obj(NoFields))}

AnyOfs ==
    {anyOf(<<s1>>) : s1 \in Alternatives}
        \cup {anyOf(<<s1, s2>>) : s1, s2 \in Alternatives}

ArraySchemas ==
    {array(s) : s \in InnerSchemas \cup {objA, literal(Num(1)), nullable(objA)}}

PropSchemas ==
    InnerSchemas \cup {literal(Num(1)), nullable(objA), objA, array(Str("number"))}

Props == PropSchemas \cup {optional(s) : s \in PropSchemas}

ObjectSchemas == {object(Obj(f)) : f \in UNION {[K -> Props] : K \in SUBSET Keys}}

ThunkSchemas == {Fn("string"), Fn("category"), array(Fn("string")), categorySchema}

Schemas ==
    Primitives \cup Literals \cup Enums \cup AnyOfs \cup ArraySchemas
        \cup ObjectSchemas \cup ThunkSchemas

\* What a caller may put under a key the schema does not declare.
ExcessValues == {Num(1), Str("x"), Null}

---------------------------------------------------------------------------
(* The calls *)

Init ==
    /\ obj \in Values
    /\ schema \in Schemas
    /\ pc = "ready"
    /\ valid = FALSE
    /\ stripped = Undefined
    /\ rebuilt = FALSE
    /\ again = Undefined

\* valid = isValid(obj, schema)
IsValidCall ==
    /\ pc = "ready"
    /\ valid' = isValid(obj, schema)
    /\ pc' = "validated"
    /\ UNCHANGED <<obj, schema, stripped, rebuilt, again>>

\* stripped = stripFields(obj, schema)
StripFieldsCall ==
    /\ pc = "ready"
    /\ LET r == stripFields(obj, schema)
       IN  /\ stripped' = r.ret
           /\ rebuilt' = r.rebuilt
    /\ pc' = "stripped"
    /\ UNCHANGED <<obj, schema, valid, again>>

\* again = stripFields(stripped, schema), on a result the first call built
StripAgain ==
    /\ pc = "stripped"
    /\ rebuilt
    /\ ~IsThrow(stripped)
    /\ again' = stripFields(stripped, schema).ret
    /\ pc' = "restripped"
    /\ UNCHANGED <<obj, schema, valid, stripped, rebuilt>>

\* The caller sets a key of the candidate that the object schema does not
\* declare.
SetUndeclared ==
    /\ pc = "ready"
    /\ obj.t = "object"
    /\ schema.t = "object"
    /\ \E k \in Keys \ OwnKeys(schema), v \in ExcessValues :
          obj' = Obj([j \in OwnKeys(obj) \cup {k} |->
                        IF j = k THEN v ELSE obj.fields[j]])
    /\ UNCHANGED <<schema, pc, valid, stripped, rebuilt, again>>

\* The caller deletes a key of the candidate that the object schema does not
\* declare.
DeleteUndeclared ==
    /\ pc = "ready"
    /\ obj.t = "object"
    /\ schema.t = "object"
    /\ \E k \in OwnKeys(obj) \ OwnKeys(schema) :
          obj' = Obj([j \in OwnKeys(obj) \ {k} |-> obj.fields[j]])
    /\ UNCHANGED <<schema, pc, valid, stripped, rebuilt, again>>

\* schema = omit(schema, [k])
OmitCall ==
    /\ pc = "ready"
    /\ schema.t = "object"
    /\ \E k \in OwnKeys(schema) : schema' = omit(schema, {k})
    /\ UNCHANGED <<obj, pc, valid, stripped, rebuilt, again>>

Next ==
    \/ IsValidCall
    \/ StripFieldsCall
    \/ StripAgain
    \/ SetUndeclared
    \/ DeleteUndeclared
    \/ OmitCall

Spec == Init /\ [][Next]_vars

---------------------------------------------------------------------------
(* The sized-integer schemas on numbers around their 8-bit boundaries *)

MaxAbs == 260

IntNames == {"int", "int8", "int32", "uint", "uint8", "uint32"}

IntSchemas == {Str(p) : p \in IntNames}

NonNumbers ==
    {Undefined, Null, Bool(TRUE), Str("1"), Big(1), Arr(<<>>), Arr(<<Num(1)>>),
     Obj(NoFields)}

NumInputs ==
    {Num(n) : n \in -MaxAbs..MaxAbs}
        \cup {NumHalf(n) : n \in -MaxAbs..MaxAbs}
        \cup NonNumbers

InitNum ==
    /\ obj \in NumInputs
    /\ schema \in IntSchemas
    /\ pc = "ready"
    /\ valid = FALSE
    /\ stripped = Undefined
    /\ rebuilt = FALSE
    /\ again = Undefined

NextValidate == IsValidCall

SpecNum == InitNum /\ [][NextValidate]_vars

---------------------------------------------------------------------------
(* Malformed schemas: an unrecognized tag or name, a missing parameter, a  *)
(* standalone optional                                                     *)

MalformedSchemas ==
    {Arr(<<Str("array")>>), Arr(<<Str("literal")>>), Arr(<<Str("anyOf")>>),
     Arr(<<Str("enum")>>), Arr(<<Str("optional")>>), Arr(<<>>),
     Arr(<<Str("tuple"), Str("string")>>), Str("float"), Str("integer")}
        \cup {optional(s) : s \in InnerSchemas}

InitMalformed ==
    /\ obj \in Values
    /\ schema \in MalformedSchemas
    /\ pc = "ready"
    /\ valid = FALSE
    /\ stripped = Undefined
    /\ rebuilt = FALSE
    /\ again = Undefined

SpecMalformed == InitMalformed /\ [][NextValidate]_vars

---------------------------------------------------------------------------
(* Properties *)

IsScalar(v) == v.t \in {"null", "boolean", "number", "bigint", "string"}

IsObjectSchema(s) == s.t = "object"

\* C1: soundness of stripping.  Whenever isValid(obj, schema) holds,
\* stripFields(obj, schema) returns a value (no exception, not undefined)
\* that is again valid against schema.
C1_Soundness ==
    (pc = "stripped" /\ isValid(obj, schema)) =>
        /\ ~IsThrow(stripped)
        /\ stripped # Undefined
        /\ isValid(stripped, schema)

\* C2: idempotence of stripping.  For a valid obj, stripping the result of
\* stripFields(obj, schema) again returns a structurally equal value: no
\* exception, not undefined, nothing more removed.
C2_Idempotence ==
    (pc = "restripped" /\ isValid(obj, schema)) =>
        /\ ~IsThrow(again)
        /\ again # Undefined
        /\ again = stripped

\* C3: stripFields never raises on a gated input.  Whenever
\* isValid(obj, schema) holds, no exception leaves stripFields(obj, schema).
C3_NoThrowWhenValid ==
    (pc = "stripped" /\ isValid(obj, schema)) => ~IsThrow(stripped)

\* C4: stripping precondition failure.  Whenever isValid(obj, schema) is
\* false, stripFields(obj, schema) returns undefined, raises nothing and
\* never enters recursiveStrip.
C4_InvalidIsAbsent ==
    (pc = "stripped" /\ ~isValid(obj, schema)) =>
        /\ stripped = Undefined
        /\ ~rebuilt

\* C4 witness: an object that fails an object schema has been stripped.
C4_Witness ==
    /\ pc = "stripped"
    /\ obj.t = "object"
    /\ IsObjectSchema(schema)
    /\ OwnKeys(schema) # {}
    /\ ~isValid(obj, schema)
    /\ stripped = Undefined

\* C5: scalars are returned as-is.  For a primitive-tag, literal or enum
\* schema and a scalar obj valid against it, stripFields returns exactly obj.
C5_ScalarsAsIs ==
    (/\ pc = "stripped"
     /\ schema \in Primitives \cup Literals \cup Enums
     /\ IsScalar(obj)
     /\ isValid(obj, schema)) => stripped = obj

\* C6: object stripping keeps exactly the declared keys that are present.
\* For an object schema and a mapping obj valid against it, the result is a
\* mapping whose key set is the set of declared keys whose value in obj is
\* not undefined.
C6_DeclaredPresentKeys ==
    (/\ pc = "stripped"
     /\ IsObjectSchema(schema)
     /\ obj.t = "object"
     /\ isValid(obj, schema)) =>
        /\ stripped.t = "object"
        /\ OwnKeys(stripped) = {k \in OwnKeys(schema) : Get(obj, k) # Undefined}

\* C7: an object schema accepts only non-null mappings.  isValid is false
\* for an object schema whenever obj is null, a scalar or an array.
C7_ObjectSchemaNeedsMapping ==
    (/\ pc = "validated"
     /\ IsObjectSchema(schema)
     /\ obj.t # "object") => ~valid

\* C8: a thunk in a schema position is resolved at the point of descent:
\* isValid(obj, thunk) equals isValid(obj, thunk()), also for the thunk that
\* is the element schema of an array schema.
C8_ThunkResolved ==
    /\ (pc = "validated" /\ schema.t = "function") =>
            valid = isValid(obj, Call(schema))
    /\ (pc = "validated" /\ \E r \in {"string", "category"} : schema = array(Fn(r))) =>
            valid = isValid(obj, array(Call(At(schema.items, 2))))

\* C9: excess-field tolerance.  Setting or deleting a key that the object
\* schema does not declare never changes isValid(obj, schema).
C9_ExcessTolerance ==
    [][(SetUndeclared \/ DeleteUndeclared) =>
          (isValid(obj', schema') = isValid(obj, schema))]_vars

\* C9 witness: a mapping with a key the schema does not declare has been
\* validated against an object schema that declares keys, and is valid.
C9_Witness ==
    /\ pc = "validated"
    /\ valid
    /\ obj.t = "object"
    /\ IsObjectSchema(schema)
    /\ OwnKeys(schema) # {}
    /\ OwnKeys(obj) \ OwnKeys(schema) # {}

\* C10: optional-property semantics.  For an object schema and a mapping
\* obj, with rest = isValid(obj, omit(schema, [k])): a key k declared
\* optional(T) and absent in obj leaves the outcome to the other keys; the
\* same key present is accepted iff isValid(obj[k], T); a key declared
\* without optional and absent in obj makes obj invalid.
C10_OptionalSemantics ==
    (/\ pc = "validated"
     /\ IsObjectSchema(schema)
     /\ obj.t = "object") =>
        \A k \in OwnKeys(schema) :
            LET p == schema.fields[k]
                rest == isValid(obj, omit(schema, {k}))
            IN  IF \E T \in PropSchemas : p = optional(T)
                THEN IF Get(obj, k) = Undefined
                     THEN valid = rest
                     ELSE valid = (isValid(Get(obj, k), At(p.items, 2)) /\ rest)
                ELSE Get(obj, k) = Undefined => ~valid

\* C10 witness: { a: 'x' } has been validated against
\* { a: 'string', b: optional('number') } and is valid.
C10_Witness ==
    /\ pc = "validated"
    /\ schema = object(Obj([a |-> Str("string"), b |-> optional(Str("number"))]))
    /\ obj = Obj([a |-> Str("x")])
    /\ valid

\* C11: sized-integer boundaries are inclusive on both ends.  For an
\* integer n, isValid(n, 'int8') iff -128 <= n <= 127 and isValid(n, 'uint8')
\* iff 0 <= n <= 255; a value that is no number, or a number with a
\* fractional part, is rejected by every sized-integer schema.
C11_SizedIntBoundaries ==
    (pc = "validated" /\ schema \in IntSchemas) =>
        /\ (obj.t = "number" /\ ~obj.half /\ schema = Str("int8")) =>
                (valid <=> (-128 <= obj.n /\ obj.n <= 127))
        /\ (obj.t = "number" /\ ~obj.half /\ schema = Str("uint8")) =>
                (valid <=> (0 <= obj.n /\ obj.n <= 255))
        /\ (obj.t # "number" \/ obj.half) => ~valid

\* C11 witness: 127 has been validated against 'int8' and is valid.
C11_Witness ==
    /\ pc = "validated"
    /\ schema = Str("int8")
    /\ obj = Num(127)
    /\ valid

\* The alternatives of anyOf(...) in order, and the first of them (left to
\* right, as params.some visits them) that obj validates against.
AlternativesOf(s) == Tail(s.items)

FirstValidAlternative(o, s) ==
    LET params == AlternativesOf(s)
    IN  params[CHOOSE i \in 1..Len(params) :
                  /\ isValid(o, params[i])
                  /\ \A j \in 1..(i - 1) : ~isValid(o, params[j])]

\* C12: anyOf stripping uses the alternative the validator accepted.  For a
\* value valid against anyOf(A1, ..., An), stripFields returns what
\* stripFields(obj, Ai) returns for the first Ai that obj validates against.
C12_AnyOfStripsAccepted ==
    (/\ pc = "stripped"
     /\ schema \in AnyOfs
     /\ isValid(obj, schema)) =>
        stripped = stripFields(obj, FirstValidAlternative(obj, schema)).ret

\* C13: validation rejects malformed schemas.  For every value and every
\* string or tagged-sequence schema with an unrecognized tag or a wrong
\* arity, isValid returns false.
C13_MalformedRejected ==
    (pc = "validated" /\ schema \in MalformedSchemas) => ~valid

============================================================================
